---- MODULE Spec2Model ----
(***************************************************************************)
(* A model of rusty-chip8: the instruction engine (chip8_lib/cpu.rs), the  *)
(* display raster engine (chip8_lib/display.rs), the input controller      *)
(* (chip8_lib/input.rs) and the scheduler loop (chip8_lib/chip8.rs) with   *)
(* the front end that feeds its channels (chip8_frontend/bin.rs).          *)
(***************************************************************************)
EXTENDS Integers, Sequences, FiniteSets, TLC

VARIABLES
    cpu,              \* the Cpu struct (cpu.rs:66-90), display and input controllers included
    overflow_checks,  \* build profile: TRUE = arithmetic overflow panics (debug), FALSE = wraps (release)
    op,               \* the operation performed last ("new": none yet)
    inst,             \* the instruction word fetched by the last exec_routine call (-1: none)
    result,           \* what the last exec_routine call returned ("Panic": it did not return)
    prev,             \* the Cpu as it was when the last exec_routine call began
    steps,            \* number of exec_routine calls made so far
    key_arg,          \* the key argument of the last InputController call
    key_prev,         \* key_state before the last InputController call
    loc,              \* where main_loop stands: "idle", "input", "quit", "exec", "sleep", "done", "panicked"
    input_ch,         \* mpsc channel of (key, KeyStatus) messages, front end -> scheduler
    quit_ch,          \* mpsc channel of quit messages, front end -> scheduler
    ui,               \* the front end's event loop: "running" or "exited"
    ticks,            \* number of main_loop iterations begun
    recv,             \* the message the last input poll received (<<>>: none)
    args,             \* the arguments of the last direct call of timer_tick or draw
    vf,               \* the value the last draw call returned (-1: none, or it did not return)
    display_ch,       \* mpsc channel of framebuffers, scheduler -> front end
    ict_sent          \* key state that the messages sent so far, applied in order, give

vars == <<cpu, overflow_checks, op, inst, result, prev, steps, key_arg, key_prev,
          loc, input_ch, quit_ch, ui, ticks, recv, args, vf, display_ch, ict_sent>>

(***************************************************************************)
(* Program constants                                                       *)
(***************************************************************************)
MEMORY_SIZE == 4096
REGISTER_COUNT == 16
STACK_SIZE == 16
FONT_START_ADDR == 80
PROGRAM_ENTRY_POINT == 512
\* Duration::from_nanos(1_000_000_000 / 600), in nanoseconds
CLOCK_SPEED == 1666666
\* 1_000_000_000 / 60, in nanoseconds
TIMER_TICK == 16666666
SCREEN_WIDTH == 64
SCREEN_HEIGHT == 32
NUM_COLS == SCREEN_WIDTH \div 8
NUM_ROWS == SCREEN_HEIGHT \div 8
PIXEL_COUNT == NUM_COLS * NUM_ROWS
I16_MAX == 32767
U16_MAX == 65535

FONT ==
    << 240, 144, 144, 144, 240,   32,  96,  32,  32, 112,
       240,  16, 240, 128, 240,  240,  16, 240,  16, 240,
       144, 144, 240,  16,  16,  240, 128, 240,  16, 240,
       240, 128, 240, 144, 240,  240,  16,  32,  64,  64,
       240, 144, 240, 144, 240,  240, 144, 240,  16, 240,
       240, 144, 240, 144, 144,  224, 144, 224, 144, 224,
       240, 128, 128, 128, 240,  224, 144, 144, 144, 224,
       240, 128, 240, 128, 240,  240, 128, 240, 128, 128 >>

(***************************************************************************)
(* Machine arithmetic: the bit operations of u8/u16 values                 *)
(***************************************************************************)
RECURSIVE Pow2(_)
Pow2(n) == IF n = 0 THEN 1 ELSE 2 * Pow2(n - 1)

RECURSIVE BitAnd(_, _)
BitAnd(a, b) ==
    IF a = 0 \/ b = 0 THEN 0
    ELSE (a % 2) * (b % 2) + 2 * BitAnd(a \div 2, b \div 2)

RECURSIVE BitOr(_, _)
BitOr(a, b) ==
    IF a = 0 THEN b
    ELSE IF b = 0 THEN a
    ELSE (IF a % 2 = 1 \/ b % 2 = 1 THEN 1 ELSE 0) + 2 * BitOr(a \div 2, b \div 2)

RECURSIVE BitXor(_, _)
BitXor(a, b) ==
    IF a = 0 THEN b
    ELSE IF b = 0 THEN a
    ELSE ((a + b) % 2) + 2 * BitXor(a \div 2, b \div 2)

\* !v on a u8
BitNot8(v) == 255 - v
\* v << n and v >> n on a u8, for a shift amount below the width
Shl8(v, n) == (v * Pow2(n)) % 256
Shr8(v, n) == v \div Pow2(n)

\* Option<u8>
None == <<>>
Some(x) == <<x>>

\* Result<(), CpuError>, paired with the Cpu the call leaves behind.
\* "Panic" is a call that unwinds instead of returning.
Ret(c, r) == [c |-> c, r |-> r]
Ok(c) == Ret(c, "Ok")
Err(c, e) == Ret(c, e)
Panic(c) == Ret(c, "Panic")
CpuErrors == {"UnknownOpcode", "EmptyStack", "StackOverflow", "MemoryOutOfBounds", "InvalidRegister"}

(***************************************************************************)
(* InputController (chip8_lib/input.rs)                                    *)
(***************************************************************************)
\* `1 << key` on a u16 with a u8 shift amount: a shift by 16 or more panics when
\* overflow checks are on and shifts by key mod 16 when they are off.
ShlOverflows(key) == overflow_checks /\ key >= 16
OneShl16(key) == Pow2(key % 16)

key_pressed(key_state, key) == BitAnd(key_state, OneShl16(key)) > 0

\* press_key without the shift: ors the key number itself into the bitmap
press_key_no_shift(key_state, key) == BitOr(key_state, key)

press_key(key_state, key) == BitOr(key_state, OneShl16(key))

unpress_key(key_state, key) == BitXor(key_state, OneShl16(key))

keys(key_state) == key_state

update_key(key_state, key, state) ==
    IF state = "Pressed" THEN press_key(key_state, key)
    ELSE unpress_key(key_state, key)

(***************************************************************************)
(* DisplayController (chip8_lib/display.rs)                                *)
(***************************************************************************)
FrameIdx == 0 .. (PIXEL_COUNT - 1)

\* DisplayController::default(): frame_buffer: [0; NUM_COLS * NUM_ROWS]
DisplayDefault == [k \in FrameIdx |-> 0]

\* clear_screen: `for i in self.frame_buffer` walks a copy of the buffer's
\* VALUES and zeroes frame_buffer[value]; an index outside the buffer panics.
RECURSIVE clear_from(_, _, _)
clear_from(orig, fb, k) ==
    IF k = PIXEL_COUNT THEN [fb |-> fb, panic |-> FALSE]
    ELSE IF orig[k] >= PIXEL_COUNT THEN [fb |-> fb, panic |-> TRUE]
    ELSE clear_from(orig, [fb EXCEPT ![orig[k]] = 0], k + 1)

clear_screen(fb) == clear_from(fb, fb, 0)

get_idx(x, y) == (y * NUM_COLS + x) \div 8

\* xor_side_from_offset that ORs the shifted sprite bits in instead of XORing
xor_side_from_offset_or(byte1, byte2, offset, side) ==
    LET save_mask == IF side = "Left" THEN Shr8(255, offset)
                     ELSE Shl8(255, 8 - offset)
        ret0 == IF side = "Left" THEN BitOr(byte1, Shl8(byte2, 8 - offset))
                ELSE BitOr(byte1, Shr8(byte2, offset))
        save_bits == BitAnd(byte1, save_mask)
    IN  BitAnd(ret0, BitNot8(save_mask)) + save_bits

xor_side_from_offset(byte1, byte2, offset, side) ==
    LET save_mask == IF side = "Left" THEN Shr8(255, offset)
                     ELSE Shl8(255, 8 - offset)
        ret0 == IF side = "Left" THEN BitXor(byte1, Shl8(byte2, 8 - offset))
                ELSE BitXor(byte1, Shr8(byte2, offset))
        save_bits == BitAnd(byte1, save_mask)
    IN  BitAnd(ret0, BitNot8(save_mask)) + save_bits

\* bit_unset that reports any difference between the two bytes
bit_unset_any_change(byte1, byte2) == byte1 # byte2

bit_unset(byte1, byte2) ==
    \E j \in 0 .. 7 : /\ BitAnd(Pow2(j), byte1) # 0
                      /\ BitAnd(Pow2(j), byte2) = 0

\* One of draw's three loops over the sprite rows, from row i on. side is
\* "Right" (first chunk), "Left" (second chunk) or "Even" (byte-aligned).
\* st = [fb, collision, panic]; an index outside the buffer panics.
RECURSIVE draw_rows(_, _, _, _, _, _)
draw_rows(st, sprite, i, start_x, start_y, side) ==
    IF i >= Len(sprite) THEN st
    ELSE
      LET s_byte == sprite[i + 1]
          x_offset == start_x % 8
          y == (start_y + i) % SCREEN_HEIGHT
          chunk_idx == IF side = "Left" THEN get_idx(start_x + (8 - x_offset), y)
                       ELSE get_idx(start_x, y)
      IN  IF chunk_idx >= PIXEL_COUNT THEN [st EXCEPT !.panic = TRUE]
          ELSE
            LET orig_chunk == st.fb[chunk_idx]
                new_chunk == IF side = "Even" THEN BitXor(orig_chunk, s_byte)
                             ELSE xor_side_from_offset(orig_chunk, s_byte, x_offset, side)
                coll == IF ~st.collision THEN bit_unset(orig_chunk, new_chunk)
                        ELSE st.collision
            IN  draw_rows([fb |-> [st.fb EXCEPT ![chunk_idx] = new_chunk],
                           collision |-> coll, panic |-> FALSE],
                          sprite, i + 1, start_x, start_y, side)

\* draw: [fb, vf, panic]; vf is the returned u8
draw(fb, start_x, start_y, sprite) ==
    LET st0 == [fb |-> fb, collision |-> FALSE, panic |-> FALSE]
        fin(st) == [fb |-> st.fb, vf |-> IF st.collision THEN 1 ELSE 0, panic |-> st.panic]
    IN  IF ~(start_x < SCREEN_WIDTH /\ start_y < SCREEN_HEIGHT)
        THEN [fb |-> fb, vf |-> 0, panic |-> TRUE]
        ELSE IF start_x % 8 # 0
        THEN LET st1 == draw_rows(st0, sprite, 0, start_x, start_y, "Right")
             IN  IF st1.panic THEN fin(st1)
                 ELSE fin(draw_rows(st1, sprite, 0, start_x, start_y, "Left"))
        ELSE fin(draw_rows(st0, sprite, 0, start_x, start_y, "Even"))

(***************************************************************************)
(* Cpu (chip8_lib/cpu.rs)                                                  *)
(***************************************************************************)
Addr == 0 .. (MEMORY_SIZE - 1)
Regs == 0 .. (REGISTER_COUNT - 1)

\* load_font: the byte it leaves at address a of a memory that held old there
load_font(a, old) ==
    IF a >= FONT_START_ADDR /\ a < FONT_START_ADDR + Len(FONT)
    THEN FONT[a - FONT_START_ADDR + 1] ELSE old

\* The memory Cpu::default() builds: zeroes (mem: [0; MEMORY_SIZE]) with the font loaded.
MemImage(a) == load_font(a, 0)

\* mem: [u8; MEMORY_SIZE] is kept as the bytes that differ from MemImage
\* (a function on the addresses holding such a byte), read through MemAt and
\* written through MemPut; MemNone is the memory equal to MemImage.
MemNone == [a \in {} |-> 0]
MemAt(c, a) == IF a \in DOMAIN c.mem THEN c.mem[a] ELSE MemImage(a)
MemPut(c, a, v) ==
    LET m == c.mem
    IN  [c EXCEPT !.mem = IF v = MemImage(a)
                          THEN [x \in (DOMAIN m) \ {a} |-> m[x]]
                          ELSE [x \in (DOMAIN m) \cup {a} |-> IF x = a THEN v ELSE m[x]]]
\* the whole array, for statements about every byte
MemAll(c) == [a \in Addr |-> MemAt(c, a)]

\* Cpu::default()
CpuDefault ==
    [pc |-> 0, sp |-> 0, dt |-> 0, dt_delta |-> TIMER_TICK, st |-> 0,
     st_delta |-> TIMER_TICK, i |-> 0, reg |-> [r \in Regs |-> 0],
     mem |-> MemNone, stk |-> <<>>,
     dct |-> DisplayDefault, ict |-> 0,
     paused |-> FALSE, blocking |-> FALSE, reg_to_write |-> None]

\* pause that leaves the flag as it is
pause_noop(c) == c

pause(c) == [c EXCEPT !.paused = TRUE]

paused(c) == c.paused

is_blocking(c) == c.blocking

\* unblock that clears the wait without writing the key into the register
unblock_no_write(c, key) == [c EXCEPT !.reg_to_write = None, !.blocking = FALSE]

unblock(c, key) ==
    LET c1 == IF c.reg_to_write # None
              THEN [c EXCEPT !.reg[c.reg_to_write[1]] = key]
              ELSE c
    IN  [c1 EXCEPT !.reg_to_write = None, !.blocking = FALSE]

\* timer_tick without the `> 0` tests: an expired accumulator decrements the
\* u8 even at 0, which wraps to 255
timer_tick_wrapping(c, delta) ==
    LET c1 == [c EXCEPT !.dt_delta = @ - delta, !.st_delta = @ - delta]
        c2 == IF c1.dt_delta <= 0
              THEN [c1 EXCEPT !.dt_delta = TIMER_TICK, !.dt = (@ + 255) % 256] ELSE c1
    IN  IF c2.st_delta <= 0
        THEN [c2 EXCEPT !.st_delta = TIMER_TICK, !.st = (@ + 255) % 256] ELSE c2

timer_tick(c, delta) ==
    LET c1 == [c EXCEPT !.dt_delta = @ - delta, !.st_delta = @ - delta]
        c2 == IF c1.dt_delta <= 0 /\ c1.dt > 0
              THEN [c1 EXCEPT !.dt_delta = TIMER_TICK, !.dt = @ - 1] ELSE c1
    IN  IF c2.st_delta <= 0 /\ c2.st > 0
        THEN [c2 EXCEPT !.st_delta = TIMER_TICK, !.st = @ - 1] ELSE c2

\* the fields of an instruction word
OpX(w) == (w \div 256) % 16
OpY(w) == (w \div 16) % 16
OpN(w) == w % 16
OpKK(w) == w % 256
OpNNN(w) == w % 4096

increment_pc(c) ==
    IF overflow_checks /\ c.pc + 2 > U16_MAX THEN Panic(c)
    ELSE LET c1 == [c EXCEPT !.pc = (c.pc + 2) % (U16_MAX + 1)]
         IN  IF c1.pc >= MEMORY_SIZE THEN Err(c1, "MemoryOutOfBounds") ELSE Ok(c1)

\* `r?; self.increment_pc()`: the `?` returns r's error, else increment_pc runs
ThenIncrementPc(r) == IF r.r = "Ok" THEN increment_pc(r.c) ELSE r

increment_sp(c) ==
    IF c.sp = I16_MAX
    THEN (IF overflow_checks THEN Panic(c)
          ELSE Ok([c EXCEPT !.sp = 0 - I16_MAX - 1]))
    ELSE LET c1 == [c EXCEPT !.sp = c.sp + 1]
         IN  IF c1.sp >= STACK_SIZE THEN Err(c1, "StackOverflow") ELSE Ok(c1)

cls(c) ==
    LET cl == clear_screen(c.dct)
        c1 == [c EXCEPT !.dct = cl.fb]
    IN  IF cl.panic THEN Panic(c1) ELSE increment_pc(c1)

\* ret as the first draft (src/cpu.rs) had it: sp is decremented before the stack is looked at
ret_sp_first(c) ==
    LET c0 == [c EXCEPT !.sp = c.sp - 1]
    IN  IF c0.stk # <<>>
        THEN Ok([c0 EXCEPT !.stk = SubSeq(c0.stk, 1, Len(c0.stk) - 1),
                           !.pc = c0.stk[Len(c0.stk)]])
        ELSE Err(c0, "EmptyStack")

ret(c) ==
    IF c.stk # <<>>
    THEN LET val == c.stk[Len(c.stk)]
             c1 == [c EXCEPT !.stk = SubSeq(c.stk, 1, Len(c.stk) - 1), !.pc = val]
         IN  IF c1.sp = 0 - I16_MAX - 1
             THEN (IF overflow_checks THEN Panic(c1) ELSE Ok([c1 EXCEPT !.sp = I16_MAX]))
             ELSE Ok([c1 EXCEPT !.sp = c1.sp - 1])
    ELSE Err(c, "EmptyStack")

jp(c, w) == Ok([c EXCEPT !.pc = OpNNN(w)])

call(c, w) ==
    LET addr == OpNNN(w)
        r == increment_sp(c)
    IN  IF r.r # "Ok" THEN r
        ELSE Ok([r.c EXCEPT !.stk = Append(r.c.stk, r.c.pc), !.pc = addr])

\* the common shape of the six skips: increment_pc once more when cond holds
skip_if(c, cond) ==
    IF cond THEN ThenIncrementPc(increment_pc(c)) ELSE increment_pc(c)

sexb(c, w) == skip_if(c, c.reg[OpX(w)] = OpKK(w))

snexb(c, w) == skip_if(c, c.reg[OpX(w)] # OpKK(w))

sexy(c, w) == skip_if(c, c.reg[OpX(w)] = c.reg[OpY(w)])

snexy(c, w) == skip_if(c, c.reg[OpX(w)] # c.reg[OpY(w)])

ldxb(c, w) == increment_pc([c EXCEPT !.reg[OpX(w)] = OpKK(w)])

addxb(c, w) ==
    LET sum == c.reg[OpX(w)] + OpKK(w)
    IN  IF overflow_checks /\ sum > 255 THEN Panic(c)
        ELSE increment_pc([c EXCEPT !.reg[OpX(w)] = sum % 256])

ldxy(c, w) == increment_pc([c EXCEPT !.reg[OpX(w)] = c.reg[OpY(w)]])

orxy(c, w) == increment_pc([c EXCEPT !.reg[OpX(w)] = BitOr(@, c.reg[OpY(w)])])

andxy(c, w) == increment_pc([c EXCEPT !.reg[OpX(w)] = BitAnd(@, c.reg[OpY(w)])])

xorxy(c, w) == increment_pc([c EXCEPT !.reg[OpX(w)] = BitXor(@, c.reg[OpY(w)])])

SetVF(c, flag) == [c EXCEPT !.reg[15] = IF flag THEN 1 ELSE 0]

\* addxy that keeps the low 8 bits and leaves VF as it was
addxy_no_carry(c, w) ==
    LET res == c.reg[OpX(w)] + c.reg[OpY(w)]
    IN  increment_pc([c EXCEPT !.reg[OpX(w)] = res % 256])

addxy(c, w) ==
    LET res == c.reg[OpX(w)] + c.reg[OpY(w)]
        c1 == SetVF(c, res > 255)
    IN  increment_pc([c1 EXCEPT !.reg[OpX(w)] = res % 256])

\* subxy with VF = NOT borrow in the other convention: 1 when Vx >= Vy
subxy_not_borrow_ge(c, w) ==
    LET res == (c.reg[OpX(w)] - c.reg[OpY(w)]) % 256
        c1 == SetVF(c, c.reg[OpX(w)] >= c.reg[OpY(w)])
    IN  increment_pc([c1 EXCEPT !.reg[OpX(w)] = res])

subxy(c, w) ==
    LET res == (c.reg[OpX(w)] - c.reg[OpY(w)]) % 256
        c1 == SetVF(c, c.reg[OpX(w)] > c.reg[OpY(w)])
    IN  increment_pc([c1 EXCEPT !.reg[OpX(w)] = res])

\* shrx in the variant that shifts Vy into Vx
shrx_from_vy(c, w) ==
    LET c1 == SetVF(c, c.reg[OpY(w)] % 2 # 0)
    IN  increment_pc([c1 EXCEPT !.reg[OpX(w)] = c1.reg[OpY(w)] \div 2])

shrx(c, w) ==
    LET c1 == SetVF(c, c.reg[OpX(w)] % 2 # 0)
    IN  increment_pc([c1 EXCEPT !.reg[OpX(w)] = c1.reg[OpX(w)] \div 2])

subnxy(c, w) ==
    LET res == (c.reg[OpY(w)] - c.reg[OpX(w)]) % 256
        c1 == SetVF(c, c.reg[OpY(w)] > c.reg[OpX(w)])
    IN  increment_pc([c1 EXCEPT !.reg[OpX(w)] = res])

shlx(c, w) ==
    LET c1 == SetVF(c, Shr8(c.reg[OpX(w)], 7) = 1)
    IN  increment_pc([c1 EXCEPT !.reg[OpX(w)] = (c1.reg[OpX(w)] * 2) % 256])

ldi(c, w) == increment_pc([c EXCEPT !.i = OpNNN(w)])

jp0(c, w) == Ok([c EXCEPT !.pc = OpNNN(w) + c.reg[0]])

\* rnd is the byte rand::random() returns
rndx(c, w, rnd) == increment_pc([c EXCEPT !.reg[OpX(w)] = BitAnd(rnd, OpKK(w))])

\* the sprite bytes mem[i .. i+n-1]; reading past the end of memory panics
SpriteAt(c, n) == [j \in 1 .. n |-> MemAt(c, c.i + j - 1)]

drwxy(c, w) ==
    LET n == OpN(w)
        x_coord == c.reg[OpX(w)]
        y_coord == c.reg[OpY(w)]
    IN  IF n > 0 /\ c.i + n - 1 >= MEMORY_SIZE THEN Panic(c)
        ELSE LET d == draw(c.dct, x_coord, y_coord, SpriteAt(c, n))
                 c1 == [c EXCEPT !.dct = d.fb]
             IN  IF d.panic THEN Panic(c1)
                 ELSE increment_pc([c1 EXCEPT !.reg[15] = d.vf])

skpx(c, w) ==
    LET key == c.reg[OpX(w)]
    IN  IF ShlOverflows(key) THEN Panic(c)
        ELSE skip_if(c, key_pressed(c.ict, key))

sknpx(c, w) ==
    LET key == c.reg[OpX(w)]
    IN  IF ShlOverflows(key) THEN Panic(c)
        ELSE skip_if(c, ~key_pressed(c.ict, key))

ldxdt(c, w) == increment_pc([c EXCEPT !.reg[OpX(w)] = c.dt])

\* ldxk that sets blocking only once increment_pc has returned Ok
ldxk_block_after_pc(c, w) ==
    LET r == increment_pc([c EXCEPT !.reg_to_write = Some(OpX(w))])
    IN  IF r.r = "Ok" THEN Ok([r.c EXCEPT !.blocking = TRUE]) ELSE r

ldxk(c, w) ==
    increment_pc([c EXCEPT !.reg_to_write = Some(OpX(w)), !.blocking = TRUE])

lddtx(c, w) == increment_pc([c EXCEPT !.dt = OpX(w)])

ldstx(c, w) == increment_pc([c EXCEPT !.st = OpX(w)])

addix(c, w) ==
    LET sum == c.i + c.reg[OpX(w)]
    IN  IF overflow_checks /\ sum > U16_MAX THEN Panic(c)
        ELSE increment_pc([c EXCEPT !.i = sum % (U16_MAX + 1)])

ldfx(c, w) ==
    LET prod == c.reg[OpX(w)] * 5
    IN  IF overflow_checks /\ prod > 255 THEN Panic(c)
        ELSE increment_pc([c EXCEPT !.i = FONT_START_ADDR + (prod % 256)])

\* ldbx's loop: while num != 0 && j != 0 { j -= 1; mem[i + j] = num % 10; num /= 10 }
RECURSIVE ldbx_loop(_, _, _)
ldbx_loop(c, num, j) ==
    IF num # 0 /\ j # 0
    THEN IF c.i + (j - 1) >= MEMORY_SIZE THEN Panic(c)
         ELSE ldbx_loop(MemPut(c, c.i + (j - 1), num % 10), num \div 10, j - 1)
    ELSE Ok(c)

ldbx(c, w) == ThenIncrementPc(ldbx_loop(c, c.reg[OpX(w)], 3))

\* for j in 0..x + 1 { mem[i + j] = reg[j] }
RECURSIVE ldiax_loop(_, _, _)
ldiax_loop(c, j, x) ==
    IF j >= x + 1 THEN Ok(c)
    ELSE IF c.i + j >= MEMORY_SIZE THEN Panic(c)
    ELSE ldiax_loop(MemPut(c, c.i + j, c.reg[j]), j + 1, x)

\* ldiax as the original interpreter had it: I is left past the copied block
ldiax_advancing_i(c, w) ==
    LET r == ldiax_loop(c, 0, OpX(w))
    IN  ThenIncrementPc([r EXCEPT !.c.i = @ + OpX(w) + 1])

ldiax(c, w) == ThenIncrementPc(ldiax_loop(c, 0, OpX(w)))

\* for j in 0..x + 1 { reg[j] = mem[i + j] }
RECURSIVE ldxia_loop(_, _, _)
ldxia_loop(c, j, x) ==
    IF j >= x + 1 THEN Ok(c)
    ELSE IF c.i + j >= MEMORY_SIZE THEN Panic(c)
    ELSE ldxia_loop([c EXCEPT !.reg[j] = MemAt(c, c.i + j)], j + 1, x)

ldxia(c, w) == ThenIncrementPc(ldxia_loop(c, 0, OpX(w)))

\* a Rust range pattern lo..hi: hi is excluded
InRange(w, lo, hi) == lo <= w /\ w < hi

\* the word exec_routine packs from mem[pc] and mem[pc + 1]
Fetch(c) == MemAt(c, c.pc) * 256 + MemAt(c, c.pc + 1)

\* indexing mem[pc] or mem[pc + 1] outside the array panics
FetchPanics(c) == c.pc + 1 >= MEMORY_SIZE

\* exec_routine's match on the fetched word w
decode(c, w, rnd) ==
    IF w = 224 THEN cls(c)
    ELSE IF w = 238 THEN ret(c)
    ELSE IF InRange(w, 4096, 8191) THEN jp(c, w)
    ELSE IF InRange(w, 8192, 12287) THEN call(c, w)
    ELSE IF InRange(w, 12288, 16383) THEN sexb(c, w)
    ELSE IF InRange(w, 16384, 20479) THEN snexb(c, w)
    ELSE IF InRange(w, 20480, 24575)
         THEN (IF OpN(w) # 0 THEN Err(c, "UnknownOpcode") ELSE sexy(c, w))
    ELSE IF InRange(w, 24576, 28671) THEN ldxb(c, w)
    ELSE IF InRange(w, 28672, 32767) THEN addxb(c, w)
    ELSE IF InRange(w, 32768, 36863)
         THEN CASE OpN(w) = 0 -> ldxy(c, w)
                [] OpN(w) = 1 -> orxy(c, w)
                [] OpN(w) = 2 -> andxy(c, w)
                [] OpN(w) = 3 -> xorxy(c, w)
                [] OpN(w) = 4 -> addxy(c, w)
                [] OpN(w) = 5 -> subxy(c, w)
                [] OpN(w) = 6 -> shrx(c, w)
                [] OpN(w) = 7 -> subnxy(c, w)
                [] OpN(w) = 14 -> shlx(c, w)
                [] OTHER -> Err(c, "UnknownOpcode")
    ELSE IF InRange(w, 36864, 40959)
         THEN (IF OpN(w) # 0 THEN Err(c, "UnknownOpcode") ELSE snexy(c, w))
    ELSE IF InRange(w, 40960, 45055) THEN ldi(c, w)
    ELSE IF InRange(w, 45056, 49151) THEN jp0(c, w)
    ELSE IF InRange(w, 49152, 53247) THEN rndx(c, w, rnd)
    ELSE IF InRange(w, 53248, 57343) THEN drwxy(c, w)
    ELSE IF InRange(w, 57344, 61439)
         THEN CASE OpKK(w) = 158 -> skpx(c, w)
                [] OpKK(w) = 161 -> sknpx(c, w)
                [] OTHER -> Err(c, "UnknownOpcode")
    ELSE IF InRange(w, 61440, 65535)
         THEN CASE OpKK(w) = 7 -> ldxdt(c, w)
                [] OpKK(w) = 10 -> ldxk(c, w)
                [] OpKK(w) = 21 -> lddtx(c, w)
                [] OpKK(w) = 24 -> ldstx(c, w)
                [] OpKK(w) = 30 -> addix(c, w)
                [] OpKK(w) = 41 -> ldfx(c, w)
                [] OpKK(w) = 51 -> ldbx(c, w)
                [] OpKK(w) = 85 -> ldiax(c, w)
                [] OpKK(w) = 101 -> ldxia(c, w)
                [] OTHER -> Err(c, "UnknownOpcode")
    ELSE Err(c, "UnknownOpcode")

exec_routine(c, rnd) ==
    IF FetchPanics(c) THEN Panic(c) ELSE decode(c, Fetch(c), rnd)

(***************************************************************************)
(* The engine driven call by call, as the unit tests of cpu.rs drive it:   *)
(* a word is stored at mem[pc], mem[pc + 1] and exec_routine is called.    *)
(***************************************************************************)
\* number of exec_routine calls explored from the constructed machine
MaxSteps == 3
\* bytes rand::random() is taken to return
RandBytes == {0, 165, 255}

\* the instruction words stored: every kind of outcome of exec_routine
Insts ==
    { 0,       \* 0000  no row
      224,     \* 00E0  CLS
      238,     \* 00EE  RET
      4097,    \* 1001  JP 0x001
      8190,    \* 1FFE  JP 0xFFE
      8196,    \* 2004  CALL 0x004
      24640,   \* 6040  LD V0, 0x40
      27170,   \* 6A22  LD VA, 0x22
      31487,   \* 7AFF  ADD VA, 0xFF
      45054,   \* AFFE  LD I, 0xFFE
      49150,   \* BFFE  JP V0, 0xFFE
      53249,   \* D001  DRW V0, V0, 1
      61450,   \* F00A  LD V0, K
      62037 }  \* F255  LD [I], V2

IsRnd(w) == InRange(w, 49152, 53247)

InitEngine ==
    /\ cpu = CpuDefault
    /\ overflow_checks \in BOOLEAN
    /\ op = "new"
    /\ inst = -1
    /\ result = "None"
    /\ prev = CpuDefault
    /\ steps = 0
    /\ key_arg = 0
    /\ key_prev = 0
    /\ loc = "idle"
    /\ input_ch = <<>>
    /\ quit_ch = <<>>
    /\ ui = "idle"
    /\ ticks = 0
    /\ recv = <<>>
    /\ args = <<>>
    /\ vf = -1
    /\ display_ch = <<>>
    /\ ict_sent = 0

Init == InitEngine

\* c.mem[pc] = hi; c.mem[pc + 1] = lo, as the tests set up the next instruction
\* (one word per call: a second store would only overwrite the first)
\* with a word of the set words
StoreInst(words, max) ==
    /\ steps < max
    /\ op # "store"
    /\ result # "Panic"
    /\ cpu.pc + 1 < MEMORY_SIZE
    /\ \E w \in words :
         cpu' = MemPut(MemPut(cpu, cpu.pc, w \div 256), cpu.pc + 1, w % 256)
    /\ op' = "store"
    /\ UNCHANGED <<overflow_checks, inst, result, prev, steps, key_arg, key_prev,
                   loc, input_ch, quit_ch, ui, ticks, recv, args, vf, display_ch, ict_sent>>

\* one call c.exec_routine()
ExecRoutine(max) ==
    /\ steps < max
    /\ result # "Panic"
    /\ \E rnd \in (IF ~FetchPanics(cpu) /\ IsRnd(Fetch(cpu)) THEN RandBytes ELSE {0}) :
         LET r == exec_routine(cpu, rnd)
         IN  /\ cpu' = r.c
             /\ result' = r.r
    /\ inst' = IF FetchPanics(cpu) THEN -1 ELSE Fetch(cpu)
    /\ prev' = cpu
    /\ steps' = steps + 1
    /\ op' = "exec_routine"
    /\ UNCHANGED <<overflow_checks, key_arg, key_prev,
                   loc, input_ch, quit_ch, ui, ticks, recv, args, vf, display_ch, ict_sent>>

Next ==
    \/ StoreInst(Insts, MaxSteps)
    \/ ExecRoutine(MaxSteps)

Spec == Init /\ [][Next]_vars

(***************************************************************************)
(* Claims about the engine driven call by call (Spec)                      *)
(***************************************************************************)
\* the last operation was an exec_routine call that fetched word w
Executed(w) == op = "exec_routine" /\ inst = w

\* C1: in every state reachable by exec_routine calls from the constructed
\* machine, whatever memory holds, pc is even and below 4096 (an instruction
\* that would break this returns MemoryOutOfBounds and leaves pc alone).
C1_PcEvenInRange == cpu.pc % 2 = 0 /\ cpu.pc < MEMORY_SIZE

\* C3: RET (00EE) on an empty call stack returns EmptyStack and leaves pc, sp,
\* the stack, the registers and memory (the whole Cpu) unchanged.
C3_RetEmptyStack ==
    (Executed(238) /\ prev.stk = <<>>) =>
        /\ result = "EmptyStack"
        /\ cpu.pc = prev.pc /\ cpu.sp = prev.sp /\ cpu.stk = prev.stk
        /\ cpu.reg = prev.reg /\ cpu.i = prev.i /\ cpu.mem = prev.mem
        /\ cpu = prev

\* C3's case: RET was executed on an empty stack by a machine whose registers,
\* index register or pc the earlier instructions had already changed.
C3_Witness ==
    /\ Executed(238) /\ prev.stk = <<>> /\ result = "EmptyStack"
    /\ prev.reg[10] = 34 /\ prev.pc = 2

\* C4: every exec_routine call returns, with Ok or one of UnknownOpcode,
\* EmptyStack, StackOverflow, MemoryOutOfBounds; none panics.
C4_NeverAborts ==
    op = "exec_routine" =>
        result \in {"Ok", "UnknownOpcode", "EmptyStack", "StackOverflow", "MemoryOutOfBounds"}

\* C5: instructions are atomic: an exec_routine call that returns a CpuError
\* leaves the whole engine state as it was before the call.
C5_ErrorLeavesState == (op = "exec_routine" /\ result \in CpuErrors) => cpu = prev

(***************************************************************************)
(* Nested calls: the same harness, storing only CALL 0x000 and RET         *)
(***************************************************************************)
\* number of exec_routine calls explored in SpecCall: past the 17th nested CALL
MaxCallSteps == 18
CallInsts == { 8192,    \* 2000  CALL 0x000
               238 }    \* 00EE  RET

NextCall ==
    \/ StoreInst(CallInsts, MaxCallSteps)
    \/ ExecRoutine(MaxCallSteps)

SpecCall == Init /\ [][NextCall]_vars

IsCall(w) == w \div 4096 = 2

\* C2: with n return addresses pending (n nested CALLs and no RET for them),
\* a CALL returns Ok while n < 16, so 16 nested CALLs succeed, and returns
\* StackOverflow when n = 16 (the 17th).
C2_SixteenNestedCalls ==
    (op = "exec_routine" /\ inst >= 0 /\ IsCall(inst)) =>
        /\ Len(prev.stk) < STACK_SIZE => result = "Ok"
        /\ Len(prev.stk) = STACK_SIZE => result = "StackOverflow"

(***************************************************************************)
(* Decoding: one exec_routine call on every 16-bit word                    *)
(***************************************************************************)
DecodeWords == 0 .. U16_MAX

NextDecode ==
    \/ StoreInst(DecodeWords, 1)
    \/ ExecRoutine(1)

SpecDecode == Init /\ [][NextDecode]_vars

\* the opcode table of the specification (4.1): the words that match a row
\* with the row's reserved bits respected
InTable(w) ==
    LET h == w \div 4096
    IN  \/ w \in {224, 238}
        \/ h \in {1, 2, 3, 4, 6, 7, 10, 11, 12, 13}
        \/ h \in {5, 9} /\ OpN(w) = 0
        \/ h = 8 /\ OpN(w) \in (0 .. 7) \cup {14}
        \/ h = 14 /\ OpKK(w) \in {158, 161}
        \/ h = 15 /\ OpKK(w) \in {7, 10, 21, 24, 30, 41, 51, 85, 101}

\* C6: exec_routine returns UnknownOpcode exactly for the words that match no
\* row of the opcode table; every word that matches a row (1FFF, 2FFF, 6FFF,
\* AFFF, DFFF included) is executed as that row's instruction.
C6_UnknownIffNoRow ==
    (op = "exec_routine" /\ inst >= 0) =>
        (result = "UnknownOpcode" <=> ~InTable(inst))

(***************************************************************************)
(* InputController driven call by call, as the unit tests of input.rs      *)
(* drive it: a bitmap is constructed and press_key / unpress_key are       *)
(* called on it.                                                           *)
(***************************************************************************)
\* number of press_key / unpress_key calls explored
MaxKeyEvents == 2
Keys == 0 .. 15
\* the bitmaps the controller is constructed with: default(), the 0xAAAA of
\* the key_pressed test, its complement, and every key down
KeyStates == {0, 43690, 21845, 65535}

InitInput ==
    /\ \E ks \in KeyStates : cpu = [CpuDefault EXCEPT !.ict = ks]
    /\ overflow_checks \in BOOLEAN
    /\ op = "new"
    /\ inst = -1
    /\ result = "None"
    /\ prev = CpuDefault
    /\ steps = 0
    /\ key_arg = 0
    /\ key_prev = 0
    /\ loc = "idle"
    /\ input_ch = <<>>
    /\ quit_ch = <<>>
    /\ ui = "idle"
    /\ ticks = 0
    /\ recv = <<>>
    /\ args = <<>>
    /\ vf = -1
    /\ display_ch = <<>>
    /\ ict_sent = 0

\* ict.press_key(k)
PressKey ==
    /\ steps < MaxKeyEvents
    /\ \E k \in Keys :
         /\ cpu' = [cpu EXCEPT !.ict = press_key(@, k)]
         /\ key_arg' = k
    /\ key_prev' = cpu.ict
    /\ op' = "press_key"
    /\ steps' = steps + 1
    /\ UNCHANGED <<overflow_checks, inst, result, prev,
                   loc, input_ch, quit_ch, ui, ticks, recv, args, vf, display_ch, ict_sent>>

\* ict.unpress_key(k)
UnpressKey ==
    /\ steps < MaxKeyEvents
    /\ \E k \in Keys :
         /\ cpu' = [cpu EXCEPT !.ict = unpress_key(@, k)]
         /\ key_arg' = k
    /\ key_prev' = cpu.ict
    /\ op' = "unpress_key"
    /\ steps' = steps + 1
    /\ UNCHANGED <<overflow_checks, inst, result, prev,
                   loc, input_ch, quit_ch, ui, ticks, recv, args, vf, display_ch, ict_sent>>

NextInput ==
    \/ PressKey
    \/ UnpressKey

SpecInput == InitInput /\ [][NextInput]_vars

\* bit k of the bitmap v, by arithmetic
Bit(v, k) == (v \div Pow2(k)) % 2 = 1

\* C7: unpress_key(k) on a bitmap whose bit k is clear leaves the bitmap as it
\* was, and key_pressed(k) stays false.
C7_ReleaseUnpressedNoop ==
    (op = "unpress_key" /\ ~Bit(key_prev, key_arg))
        => (cpu.ict = key_prev /\ ~key_pressed(cpu.ict, key_arg))

\* C8, the part that holds in every state: key_pressed(k) is true iff bit k of
\* the bitmap is set; after press_key(k), key_pressed(k) is true; press_key(k)
\* and unpress_key(k) leave the bit of every other key as it was.
C8_State ==
    /\ \A k \in Keys : key_pressed(cpu.ict, k) <=> Bit(cpu.ict, k)
    /\ op = "press_key" => key_pressed(cpu.ict, key_arg)
    /\ op \in {"press_key", "unpress_key"}
         => \A j \in Keys \ {key_arg} : Bit(cpu.ict, j) <=> Bit(key_prev, j)

\* C8, the part about two calls in a row: unpress_key(k) right after
\* press_key(k) leaves key_pressed(k) false.
C8_PressThenRelease ==
    (op = "press_key" /\ op' = "unpress_key" /\ key_arg' = key_arg)
        => ~key_pressed(cpu'.ict, key_arg)

\* C8: for every key k in 0x0..0xF and any bitmap, after press_key(k)
\* key_pressed(k) is true, after press_key(k) then unpress_key(k) it is false,
\* key_pressed(k) is bit k of the bitmap, and neither call changes another
\* key's bit.
C8_PressRelease == []C8_State /\ [][C8_PressThenRelease]_vars

\* press_key(0xA) then unpress_key(0xA) on the bitmap 0xAAAA, whose bit 0xA is
\* clear and whose odd bits are set
C8_Witness ==
    /\ op = "unpress_key"
    /\ key_arg = 10
    /\ steps = 2
    /\ Bit(key_prev, 10)
    /\ cpu.ict = 43690
    /\ ~key_pressed(cpu.ict, 10)

(***************************************************************************)
(* Chip8::main_loop (chip8_lib/chip8.rs) and the thread at the other end   *)
(* of its channels (chip8_frontend/bin.rs).  One iteration of the loop is  *)
(* three steps, cut at its channel operations: the input poll, the quit    *)
(* poll, and the execute step; the sender's steps interleave with them.    *)
(* Chip8 has no call that loads a program, so the instruction found at pc  *)
(* is stored by StoreInst before the execute step, as in the engine        *)
(* harness above.                                                          *)
(***************************************************************************)
\* number of iterations of the loop explored
MaxTicks == 3
\* messages the input channel holds at once (the channel itself is unbounded)
MaxQueue == 1
\* key values sent over the input channel
SentKeys == {1, 10}
KeyStatus == {"Pressed", "Unpressed"}
\* elapsed time measured by one iteration, in ns: the period, and a timer tick
Deltas == {CLOCK_SPEED, TIMER_TICK}

SchedInsts ==
    { 0,       \* 0000  no row
      8190,    \* 1FFE  JP 0xFFE
      61706 }  \* F10A  LD V1, K

\* Chip8::new(), connect(), and the sender's loop entered
InitSched ==
    /\ cpu = CpuDefault
    /\ overflow_checks \in BOOLEAN
    /\ op = "new"
    /\ inst = -1
    /\ result = "None"
    /\ prev = CpuDefault
    /\ steps = 0
    /\ key_arg = 0
    /\ key_prev = 0
    /\ loc = "input"
    /\ input_ch = <<>>
    /\ quit_ch = <<>>
    /\ ui = "running"
    /\ ticks = 0
    /\ recv = <<>>
    /\ args = <<>>
    /\ vf = -1
    /\ display_ch = <<>>
    /\ ict_sent = 0

\* the instruction at pc, stored before an execute step that will fetch it
SchedStore ==
    /\ loc = "exec"
    /\ ~paused(cpu)
    /\ ~is_blocking(cpu)
    /\ StoreInst(SchedInsts, MaxTicks)

\* an input poll that applies presses and throws releases away
SchedInput_press_only ==
    /\ loc = "input"
    /\ ticks < MaxTicks
    /\ IF input_ch # <<>>
       THEN LET key == Head(input_ch)[1]
                state == Head(input_ch)[2]
                c1 == IF state = "Pressed"
                      THEN [cpu EXCEPT !.ict = update_key(@, key, state)]
                      ELSE cpu
            IN  /\ cpu' = IF is_blocking(c1) /\ state = "Pressed"
                          THEN unblock(c1, key) ELSE c1
                /\ recv' = Head(input_ch)
                /\ input_ch' = Tail(input_ch)
       ELSE /\ recv' = <<>>
            /\ UNCHANGED <<cpu, input_ch>>
    /\ loc' = "quit"
    /\ op' = "input_poll"
    /\ UNCHANGED <<overflow_checks, inst, result, prev, steps, key_arg, key_prev,
                   quit_ch, ui, ticks, args, vf, display_ch, ict_sent>>

\* if let Ok((key, state)) = rx.try_recv() { update_key; unblock }
SchedInput ==
    /\ loc = "input"
    /\ ticks < MaxTicks
    /\ IF input_ch # <<>>
       THEN LET key == Head(input_ch)[1]
                state == Head(input_ch)[2]
                c1 == [cpu EXCEPT !.ict = update_key(@, key, state)]
            IN  /\ cpu' = IF is_blocking(c1) /\ state = "Pressed"
                          THEN unblock(c1, key) ELSE c1
                /\ recv' = Head(input_ch)
                /\ input_ch' = Tail(input_ch)
       ELSE /\ recv' = <<>>
            /\ UNCHANGED <<cpu, input_ch>>
    /\ loc' = "quit"
    /\ op' = "input_poll"
    /\ UNCHANGED <<overflow_checks, inst, result, prev, steps, key_arg, key_prev,
                   quit_ch, ui, ticks, args, vf, display_ch, ict_sent>>

\* a quit poll that is skipped while the engine is paused or blocking
SchedQuit_unless_stopped ==
    /\ loc = "quit"
    /\ IF quit_ch # <<>> /\ ~paused(cpu) /\ ~is_blocking(cpu)
       THEN /\ quit_ch' = Tail(quit_ch)
            /\ loc' = "done"
       ELSE /\ loc' = "exec"
            /\ UNCHANGED quit_ch
    /\ op' = "quit_poll"
    /\ UNCHANGED <<cpu, overflow_checks, inst, result, prev, steps, key_arg,
                   key_prev, input_ch, ui, ticks, recv, args, vf, display_ch, ict_sent>>

\* if rx.try_recv().is_ok() { break 'main }
SchedQuit ==
    /\ loc = "quit"
    /\ IF quit_ch # <<>>
       THEN /\ quit_ch' = Tail(quit_ch)
            /\ loc' = "done"
       ELSE /\ loc' = "exec"
            /\ UNCHANGED quit_ch
    /\ op' = "quit_poll"
    /\ UNCHANGED <<cpu, overflow_checks, inst, result, prev, steps, key_arg,
                   key_prev, input_ch, ui, ticks, recv, args, vf, display_ch, ict_sent>>

\* an execute step that calls exec_routine first and timer_tick after it
SchedExec_exec_first ==
    /\ loc = "exec"
    /\ IF ~paused(cpu) /\ ~is_blocking(cpu)
       THEN \E delta \in Deltas :
            \E rnd \in (IF ~FetchPanics(cpu) /\ IsRnd(Fetch(cpu))
                        THEN RandBytes ELSE {0}) :
            \E r \in {exec_routine(cpu, rnd)} :
                  /\ cpu' = IF r.r \in CpuErrors THEN pause(timer_tick(r.c, delta))
                            ELSE timer_tick(r.c, delta)
                  /\ result' = r.r
                  /\ loc' = IF r.r = "Panic" THEN "panicked" ELSE "input"
                  /\ inst' = IF FetchPanics(cpu) THEN -1 ELSE Fetch(cpu)
                  /\ prev' = cpu
                  /\ steps' = steps + 1
                  /\ op' = "exec_routine"
       ELSE /\ loc' = "input"
            /\ op' = "no_exec"
            /\ UNCHANGED <<cpu, result, inst, prev, steps>>
    /\ ticks' = ticks + 1
    /\ UNCHANGED <<overflow_checks, key_arg, key_prev, input_ch, quit_ch, ui, recv, args, vf, display_ch, ict_sent>>

\* if !paused && !is_blocking { timer_tick(delta); exec_routine(), pause() on
\* Err }, then the sleep to the end of the period
SchedExec ==
    /\ loc = "exec"
    /\ IF ~paused(cpu) /\ ~is_blocking(cpu)
       THEN \E delta \in Deltas :
            \E rnd \in (IF ~FetchPanics(cpu) /\ IsRnd(Fetch(cpu))
                        THEN RandBytes ELSE {0}) :
            \E r \in {exec_routine(timer_tick(cpu, delta), rnd)} :
                  /\ cpu' = IF r.r \in CpuErrors THEN pause(r.c) ELSE r.c
                  /\ result' = r.r
                  /\ loc' = IF r.r = "Panic" THEN "panicked" ELSE "input"
                  /\ inst' = IF FetchPanics(cpu) THEN -1 ELSE Fetch(cpu)
                  /\ prev' = cpu
                  /\ steps' = steps + 1
                  /\ op' = "exec_routine"
       ELSE /\ loc' = "input"
            /\ op' = "no_exec"
            /\ UNCHANGED <<cpu, result, inst, prev, steps>>
    /\ ticks' = ticks + 1
    /\ UNCHANGED <<overflow_checks, key_arg, key_prev, input_ch, quit_ch, ui, recv, args, vf, display_ch, ict_sent>>

\* input_tx.send((val, KeyStatus::Pressed)) / input_tx.send((val, Unpressed)),
\* while the channel holds fewer than max messages
UiSend(max) ==
    /\ ui = "running"
    /\ Len(input_ch) < max
    /\ \E k \in SentKeys, state \in KeyStatus :
         /\ input_ch' = Append(input_ch, <<k, state>>)
         /\ ict_sent' = update_key(ict_sent, k, state)
    /\ UNCHANGED <<cpu, overflow_checks, op, inst, result, prev, steps, key_arg,
                   key_prev, loc, quit_ch, ui, ticks, recv, args, vf, display_ch>>

UiSendKey == UiSend(MaxQueue)

\* quit_tx.send(true); break 'running
UiQuit ==
    /\ ui = "running"
    /\ quit_ch' = Append(quit_ch, TRUE)
    /\ ui' = "exited"
    /\ UNCHANGED <<cpu, overflow_checks, op, inst, result, prev, steps, key_arg,
                   key_prev, loc, input_ch, ticks, recv, args, vf, display_ch, ict_sent>>

NextSched ==
    \/ SchedStore
    \/ SchedInput
    \/ SchedQuit
    \/ SchedExec
    \/ UiSendKey
    \/ UiQuit

SpecSched == InitSched /\ [][NextSched]_vars

\* the word is Fx0A
IsLdxk(w) == w \div 4096 = 15 /\ w % 256 = 10

\* C9, the state after the call: when exec_routine has run Fx0A and returned
\* Ok, the engine is blocking and not paused, the pending register is x, and
\* pc is 2 past the instruction.
C9_AfterLdxk ==
    (op = "exec_routine" /\ IsLdxk(inst) /\ result = "Ok")
        => /\ cpu.blocking
           /\ cpu.reg_to_write = Some(OpX(inst))
           /\ cpu.pc = prev.pc + 2
           /\ ~cpu.paused

\* C9, the steps of the loop while the engine is blocking: no step calls
\* exec_routine, moves pc or pauses the engine; blocking ends only in an input poll that received
\* a Pressed message, and every such poll ends it with the key in the pending
\* register, blocking and the pending register cleared; a poll that received an
\* Unpressed message leaves the wait as it was; and the execute step of an
\* engine that is neither blocking nor paused calls exec_routine on the
\* instruction at pc.
C9_Step ==
    /\ cpu.blocking
         => (steps' = steps /\ cpu'.pc = cpu.pc /\ cpu'.paused = cpu.paused)
    /\ (cpu.blocking /\ ~cpu'.blocking)
         => (op' = "input_poll" /\ recv' # <<>> /\ recv'[2] = "Pressed")
    /\ (cpu.blocking /\ op' = "input_poll" /\ recv' # <<>> /\ recv'[2] = "Pressed")
         => /\ ~cpu'.blocking
            /\ cpu'.reg_to_write = None
            /\ cpu.reg_to_write # None
            /\ cpu'.reg[cpu.reg_to_write[1]] = recv'[1]
    /\ (cpu.blocking /\ op' = "input_poll" /\ recv' # <<>> /\ recv'[2] = "Unpressed")
         => (cpu'.blocking /\ cpu'.reg_to_write = cpu.reg_to_write)
    /\ (loc = "exec" /\ ticks' = ticks + 1 /\ ~cpu.blocking /\ ~cpu.paused)
         => (steps' = steps + 1 /\ prev'.pc = cpu.pc /\ inst' = Fetch(cpu))

\* C9: after Fx0A the engine is blocking with pending register x and pc
\* advanced by 2; main_loop makes no exec_routine call until its input poll
\* receives a Pressed message (an Unpressed one does not unblock); that poll
\* leaves the key in Vx and clears blocking and the pending register, and the
\* execute step then runs the instruction at pc.
C9_KeyWait == []C9_AfterLdxk /\ [][C9_Step]_vars

\* F10A blocked the engine at pc 0, the poll received (0xA, Pressed), and the
\* execute step of that iteration ran the instruction at 0x002
C9_Witness ==
    /\ op = "exec_routine"
    /\ result = "Ok"
    /\ prev.pc = 2
    /\ recv = <<10, "Pressed">>
    /\ cpu.reg[1] = 10
    /\ ~cpu.blocking
    /\ cpu.reg_to_write = None

\* C10, the state after the call: when the exec_routine call of main_loop has
\* returned a CpuError the engine is paused.
C10_AfterError ==
    (op = "exec_routine" /\ result \in CpuErrors) => cpu.paused

\* C10, every step from a paused engine: no exec_routine call, and paused stays
\* set.
C10_Step == cpu.paused => (cpu'.paused /\ steps' = steps)

\* C10: once exec_routine returns a CpuError main_loop pauses the engine, no
\* later iteration calls exec_routine, and nothing clears paused.
C10_PausedForGood == []C10_AfterError /\ [][C10_Step]_vars

\* 0000 returned UnknownOpcode in the first iteration and the execute step of a
\* later iteration made no call
C10_Witness ==
    /\ op = "no_exec"
    /\ result = "UnknownOpcode"
    /\ cpu.paused
    /\ steps = 1
    /\ ticks >= 2

(***************************************************************************)
(* main_loop with the front end as bin.rs builds it, and with its thread   *)
(* kept running.  The front end looks keys up in Cfg::default(), whose     *)
(* layout is empty, so it sends no key message: its only step is the quit. *)
(* The three steps of an iteration are taken whenever they can be; the     *)
(* front end and the stores are under no such obligation.                  *)
(***************************************************************************)
NextQuit ==
    \/ SchedStore
    \/ SchedInput
    \/ SchedQuit
    \/ SchedExec
    \/ UiQuit

SpecQuit ==
    /\ InitSched
    /\ [][NextQuit]_vars
    /\ WF_vars(SchedInput)
    /\ WF_vars(SchedQuit)
    /\ WF_vars(SchedExec)

\* C11: once a quit message is in the quit channel, main_loop reaches its end
\* (break 'main), whether the engine is running, paused or blocking.  The
\* iterations explored end at MaxTicks, so the message is one sent while an
\* iteration after the current one is still explored.
C11_QuitTerminates ==
    (quit_ch # <<>> /\ ticks + 1 < MaxTicks) ~> (loc = "done")

\* main_loop ended while the engine was waiting for a key
C11_Witness ==
    /\ loc = "done"
    /\ cpu.blocking
    /\ ~cpu.paused
    /\ quit_ch = <<>>
    /\ ui = "exited"

(***************************************************************************)
(* main_loop with a sender that gets ahead of it: the input channel holds  *)
(* up to MaxPending messages when an iteration begins.                     *)
(***************************************************************************)
MaxPending == 2

UiSendAhead == UiSend(MaxPending)

NextDrain ==
    \/ SchedStore
    \/ SchedInput
    \/ SchedQuit
    \/ SchedExec
    \/ UiSendAhead
    \/ UiQuit

SpecDrain == InitSched /\ [][NextDrain]_vars

\* C12: the input poll of an iteration receives every message that is in the
\* input channel when the iteration begins: when the poll is over and the quit
\* poll is next, the channel is empty.
C12_InputDrained ==
    [][(loc = "input" /\ loc' = "quit") => input_ch' = <<>>]_vars

(***************************************************************************)
(* The timers driven call by call: timer_tick(delta) with an elapsed       *)
(* interval, and exec_routine on a stored timer instruction.               *)
(***************************************************************************)
\* number of exec_routine calls explored in SpecTimer
MaxTimerSteps == 2
\* number of timer_tick calls explored in SpecTimer
MaxTimerCalls == 3
\* elapsed intervals passed to timer_tick, in ns: 1/600 s, 1/60 s, 2/60 s
TickDeltas == {CLOCK_SPEED, TIMER_TICK, 2 * TIMER_TICK}

TimerInsts ==
    { 61447,   \* F007  LD V0, DT
      62232,   \* F318  LD ST, V3
      62741 }  \* F515  LD DT, V5

\* c.timer_tick(delta)
TimerTick ==
    /\ ticks < MaxTimerCalls
    /\ result # "Panic"
    /\ \E delta \in TickDeltas :
         /\ cpu' = timer_tick(cpu, delta)
         /\ args' = <<delta>>
    /\ prev' = cpu
    /\ ticks' = ticks + 1
    /\ op' = "timer_tick"
    /\ UNCHANGED <<overflow_checks, inst, result, steps, key_arg, key_prev,
                   loc, input_ch, quit_ch, ui, recv, vf, display_ch, ict_sent>>

NextTimer ==
    \/ StoreInst(TimerInsts, MaxTimerSteps)
    \/ ExecRoutine(MaxTimerSteps)
    \/ TimerTick

SpecTimer == Init /\ [][NextTimer]_vars

\* C13: one timer_tick call whose elapsed interval is k/60 s decreases a delay
\* timer, and a sound timer, that holds at least k by k.
C13_TimerRate ==
    \A k \in 1 .. 2 :
        (op = "timer_tick" /\ args[1] = k * TIMER_TICK)
            => /\ prev.dt >= k => cpu.dt = prev.dt - k
               /\ prev.st >= k => cpu.st = prev.st - k

IsLddtx(w) == w \div 4096 = 15 /\ w % 256 = 21
IsLdstx(w) == w \div 4096 = 15 /\ w % 256 = 24

\* C14, every state: both timers are in 0..255, and a timer_tick call leaves a
\* timer that was 0 at 0 and raises neither timer.
C14_State ==
    /\ cpu.dt \in 0 .. 255
    /\ cpu.st \in 0 .. 255
    /\ op = "timer_tick"
         => /\ prev.dt = 0 => cpu.dt = 0
            /\ prev.st = 0 => cpu.st = 0
            /\ cpu.dt <= prev.dt
            /\ cpu.st <= prev.st

\* C14, every step: the delay timer rises only in an exec_routine call that
\* ran Fx15, the sound timer only in one that ran Fx18.
C14_Step ==
    /\ cpu'.dt > cpu.dt => (op' = "exec_routine" /\ IsLddtx(inst'))
    /\ cpu'.st > cpu.st => (op' = "exec_routine" /\ IsLdstx(inst'))

\* C14: the timers stay in 0..255, timer_tick leaves a timer equal to 0 at 0
\* (no reload), and a timer's value rises only through Fx15 (delay) or Fx18
\* (sound).
C14_TimersClamped == []C14_State /\ [][C14_Step]_vars

\* timer_tick with the delay accumulator run out and the delay timer at 0,
\* while the sound timer, set by F318, counts down
C14_Witness ==
    /\ op = "timer_tick"
    /\ prev.dt = 0
    /\ cpu.dt = 0
    /\ cpu.dt_delta <= 0
    /\ prev.st = 3
    /\ cpu.st = 2

(***************************************************************************)
(* The display driven call by call, as the unit tests of display.rs drive  *)
(* it (dct.draw(x, y, sprite)), together with exec_routine on a stored     *)
(* 00E0 or Dxyn.                                                           *)
(***************************************************************************)
\* number of draw calls explored
MaxDraws == 1
\* number of exec_routine calls explored in SpecDraw
MaxDrawSteps == 1
\* start columns: byte-aligned (0, 8), the draw_offset test's 1, and 57, whose
\* sprite passes column 63
DrawXs == {0, 1, 8, 57}
\* start rows: the top, row 2, and the bottom row
DrawYs == {0, 2, 31}
\* the glyph "0" of the tests, one full row, one pixel, and two rows
Sprites == { <<240, 144, 144, 144, 240>>, <<255>>, <<1>>, <<129, 128>> }

DrawInsts ==
    { 224,      \* 00E0  CLS
      53249 }   \* D001  DRW V0, V0, 1

\* dct.draw(x, y, sprite)
Draw ==
    /\ ticks < MaxDraws
    /\ result # "Panic"
    /\ \E x \in DrawXs, y \in DrawYs, sprite \in Sprites :
       \E d \in {draw(cpu.dct, x, y, sprite)} :
         /\ cpu' = [cpu EXCEPT !.dct = d.fb]
         /\ vf' = IF d.panic THEN -1 ELSE d.vf
         /\ result' = IF d.panic THEN "Panic" ELSE "Ok"
         /\ args' = <<x, y, sprite>>
    /\ prev' = cpu
    /\ ticks' = ticks + 1
    /\ op' = "draw"
    /\ UNCHANGED <<overflow_checks, inst, steps, key_arg, key_prev,
                   loc, input_ch, quit_ch, ui, recv, display_ch, ict_sent>>

NextDraw ==
    \/ Draw
    \/ StoreInst(DrawInsts, MaxDrawSteps)
    \/ ExecRoutine(MaxDrawSteps)

SpecDraw == Init /\ [][NextDraw]_vars

\* C15: after 00E0 has run, every byte of the framebuffer is 0 and pc is 2
\* past the instruction.
C15_ClearZeroes ==
    (Executed(224) /\ result = "Ok")
        => /\ \A k \in FrameIdx : cpu.dct[k] = 0
           /\ cpu.pc = prev.pc + 2

\* C16: with the grid stored row-major at 8 pixels a byte, the buffer has 256
\* bytes, the byte index of the pixel a draw starts at is inside the buffer, and
\* no pixel of another row or another 8-pixel column group has the same index.
C16_Layout ==
    op = "draw"
        => LET x == args[1]
               y == args[2]
           IN  /\ PIXEL_COUNT = 256
               /\ get_idx(x, y) \in FrameIdx
               /\ \A x2 \in 0 .. (SCREEN_WIDTH - 1), y2 \in 0 .. (SCREEN_HEIGHT - 1) :
                    get_idx(x2, y2) = get_idx(x, y)
                        => (y2 = y /\ x2 \div 8 = x \div 8)

\* the rows of the sprite of the last draw: r is the row drawn on display row py
SpriteRowOn(py, r) ==
    r \in 1 .. Len(args[3]) /\ py = (args[2] + r - 1) % SCREEN_HEIGHT

\* C17: a draw at a byte-aligned x returns, and every byte of the display,
\* addressed as the code addresses it (get_idx of column group cg, row), is the
\* old byte XOR the sprite byte if it is the byte of column group x/8 in a row
\* of the sprite, and the old byte otherwise; on a cleared display the
\* collision is 0.
C17_AlignedDraw ==
    (op = "draw" /\ args[1] % 8 = 0)
        => /\ result = "Ok"
           /\ prev.dct = DisplayDefault => vf = 0
           /\ \A cg \in 0 .. 7, row \in 0 .. (SCREEN_HEIGHT - 1) :
                LET k == get_idx(8 * cg, row)
                IN  /\ k \in FrameIdx
                    /\ IF cg = args[1] \div 8 /\ \E r \in 1 .. 15 : SpriteRowOn(row, r)
                       THEN \E r \in 1 .. 15 :
                              /\ SpriteRowOn(row, r)
                              /\ cpu.dct[k] = BitXor(prev.dct[k], args[3][r])
                       ELSE cpu.dct[k] = prev.dct[k]

\* pixel (px, py) of a framebuffer, read where the code stores it: bit
\* 7 - px mod 8 of the byte at get_idx(px, py); -1 if that is no byte of the
\* buffer
PixelAt(fb, px, py) ==
    LET k == get_idx(px, py)
    IN  IF k \in FrameIdx THEN (fb[k] \div Pow2(7 - (px % 8))) % 2 ELSE -1

\* the sprite of the last draw has a set bit for pixel (px, py): bit 7 - c of
\* row r lands on ((x + c) mod 64, (y + r) mod 32)
SpriteBitOn(px, py) ==
    \E r \in 1 .. 15, c \in 0 .. 7 :
        /\ SpriteRowOn(py, r)
        /\ px = (args[1] + c) % SCREEN_WIDTH
        /\ (args[3][r] \div Pow2(7 - c)) % 2 = 1

\* the pixel is in the 8-pixel span of a row of the last draw's sprite
InSpriteSpan(px, py) ==
    \E r \in 1 .. 15, c \in 0 .. 7 :
        SpriteRowOn(py, r) /\ px = (args[1] + c) % SCREEN_WIDTH

\* C18: a draw at an x that is not a multiple of 8, with its 8 columns inside
\* the row, returns, flips exactly the pixels under the set bits of the sprite
\* (each row in its own display row, across the two adjacent bytes), and leaves
\* every other pixel as it was.
C18_UnalignedDraw ==
    (op = "draw" /\ args[1] % 8 # 0 /\ args[1] + 7 < SCREEN_WIDTH)
        => /\ result = "Ok"
           /\ \A px \in 0 .. (SCREEN_WIDTH - 1), py \in 0 .. (SCREEN_HEIGHT - 1) :
                (PixelAt(cpu.dct, px, py) # PixelAt(prev.dct, px, py))
                    <=> SpriteBitOn(px, py)

\* C19: a draw at any 0 <= x < 64, 0 <= y < 32 returns, and the pixels it
\* changes are all of the form ((x + c) mod 64, (y + r) mod 32) with c in 0..7
\* and r a row of the sprite.
C19_Wraps ==
    op = "draw"
        => /\ result = "Ok"
           /\ \A px \in 0 .. (SCREEN_WIDTH - 1), py \in 0 .. (SCREEN_HEIGHT - 1) :
                (PixelAt(cpu.dct, px, py) # PixelAt(prev.dct, px, py))
                    => InSpriteSpan(px, py)

\* some pixel is set in old and clear in new. Byte k of the buffer is where
\* pixels (0, k) .. (7, k) are stored (get_idx(c, k) = k for c < 8), and every
\* other pixel that has a byte shares it with one of these.
SomePixelErased(old, new) ==
    \E py \in FrameIdx :
        /\ old[py] # new[py]
        /\ \E px \in 0 .. 7 : PixelAt(old, px, py) = 1 /\ PixelAt(new, px, py) = 0

IsDrwxy(w) == w \div 4096 = 13

\* C20: a draw that returns, returns 1 if a pixel that was set before it is
\* clear after it and 0 otherwise, and a Dxyn that returns leaves that value
\* in VF.
C20_Collision ==
    /\ (op = "draw" /\ result = "Ok")
         => vf = IF SomePixelErased(prev.dct, cpu.dct) THEN 1 ELSE 0
    /\ (op = "exec_routine" /\ IsDrwxy(inst) /\ result # "Panic")
         => cpu.reg[15] = IF SomePixelErased(prev.dct, cpu.dct) THEN 1 ELSE 0

\* D001 drew its own first byte 0xD0 at (0, 0); draw(0, 0, glyph "0") then
\* erased pixels of it and set others, and returned 1
C20_Witness ==
    /\ op = "draw"
    /\ result = "Ok"
    /\ vf = 1
    /\ args = <<0, 0, <<240, 144, 144, 144, 240>>>>
    /\ prev.dct[0] = 208
    /\ cpu.dct[0] = 32

(***************************************************************************)
(* Drawing twice, as the test draw_collision does: dct.draw(x, y, sprite)  *)
(* and then dct.draw(x, y, sprite) again, on a display that a Dxyn or a    *)
(* 00E0 may have changed before                                            *)
(***************************************************************************)
\* number of repeated draws explored
MaxRedraws == 1

\* _ = dct.draw(x, y, sprite); let vf = dct.draw(x, y, sprite);
\* vf is what the second call returned
DrawTwice ==
    /\ ticks < MaxRedraws
    /\ result # "Panic"
    /\ \E x \in DrawXs, y \in DrawYs, sprite \in Sprites :
       \E d1 \in {draw(cpu.dct, x, y, sprite)} :
       \E d2 \in {IF d1.panic THEN d1 ELSE draw(d1.fb, x, y, sprite)} :
         /\ cpu' = [cpu EXCEPT !.dct = d2.fb]
         /\ vf' = IF d2.panic THEN -1 ELSE d2.vf
         /\ result' = IF d2.panic THEN "Panic" ELSE "Ok"
         /\ args' = <<x, y, sprite>>
    /\ prev' = cpu
    /\ ticks' = ticks + 1
    /\ op' = "draw_twice"
    /\ UNCHANGED <<overflow_checks, inst, steps, key_arg, key_prev,
                   loc, input_ch, quit_ch, ui, recv, display_ch, ict_sent>>

NextRedraw ==
    \/ DrawTwice
    \/ StoreInst(DrawInsts, MaxDrawSteps)
    \/ ExecRoutine(MaxDrawSteps)

SpecRedraw == Init /\ [][NextRedraw]_vars

\* the sprite of the last draw has a set bit
SpriteHasBit == \E r \in 1 .. Len(args[3]) : args[3][r] # 0

\* C21: two draws of the same sprite at the same coordinates that have both
\* returned leave the framebuffer as it was before the first, and the second
\* returns 1 if the first was onto the cleared display and the sprite has a
\* set bit.
C21_DrawTwiceRestores ==
    (op = "draw_twice" /\ result = "Ok")
        => /\ cpu.dct = prev.dct
           /\ (prev.dct = DisplayDefault /\ SpriteHasBit) => vf = 1

\* the glyph "0" drawn twice at (1, 0) over the byte 0xD0 that D001 had drawn
\* at (0, 0): the display is as before and the second draw returned 1
C21_Witness ==
    /\ op = "draw_twice"
    /\ result = "Ok"
    /\ args = <<1, 0, <<240, 144, 144, 144, 240>>>>
    /\ prev.dct[0] = 208
    /\ cpu.dct = prev.dct
    /\ vf = 1

(***************************************************************************)
(* The font area: the engine harness storing instructions that write       *)
(* memory through I                                                        *)
(***************************************************************************)
\* number of exec_routine calls explored in SpecFont
MaxFontSteps == 3
FontInsts ==
    { 24699,    \* 607B  LD V0, 0x7B
      41040,    \* A050  LD I, 0x050
      61491,    \* F033  LD B, V0
      61525 }   \* F055  LD [I], V0

NextFont ==
    \/ StoreInst(FontInsts, MaxFontSteps)
    \/ ExecRoutine(MaxFontSteps)

SpecFont == Init /\ [][NextFont]_vars

FontAddrs == FONT_START_ADDR .. (FONT_START_ADDR + Len(FONT) - 1)

\* C22: in every state the engine reaches, the 80 bytes from 0x50 on are the
\* built-in font table (the instruction words are stored at pc, below 0x50).
C22_FontImmutable ==
    \A a \in FontAddrs : MemAt(cpu, a) = FONT[a - FONT_START_ADDR + 1]

(***************************************************************************)
(* The display channel: main_loop running instructions that draw and       *)
(* clear.  connect() stores the Sender in display_transmitter; a send      *)
(* would append the framebuffer to display_ch.                             *)
(***************************************************************************)
PublishInsts ==
    { 0,        \* 0000  no row
      224,      \* 00E0  CLS
      53249 }   \* D001  DRW V0, V0, 1

PublishStore ==
    /\ loc = "exec"
    /\ ~paused(cpu)
    /\ ~is_blocking(cpu)
    /\ StoreInst(PublishInsts, MaxTicks)

NextPublish ==
    \/ PublishStore
    \/ SchedInput
    \/ SchedQuit
    \/ SchedExec
    \/ UiQuit

SpecPublish == InitSched /\ [][NextPublish]_vars

\* the framebuffer fb has been sent on the display channel
Sent(fb) == \E k \in 1 .. Len(display_ch) : display_ch[k] = fb

\* C23: when an instruction has changed the framebuffer in one iteration of
\* main_loop and the loop has come round to the execute step of the next
\* iteration, the framebuffer as it is now has been sent on the display
\* channel.
C23_FramePublished ==
    (loc = "exec" /\ op = "quit_poll" /\ cpu.dct # DisplayDefault) => Sent(cpu.dct)

(***************************************************************************)
(* Arithmetic, timer and BCD instructions, driven as their unit tests      *)
(* drive them: registers are assigned (c.reg[0xB] = 255), the word is      *)
(* stored at pc, and exec_routine is called.                               *)
(***************************************************************************)
\* number of exec_routine calls explored in SpecAlu
MaxAluSteps == 1
\* the registers the tests assign
SetRegs == {11, 12}
\* values assigned: the operands of the tests (255 + 20, 10 - 100, 11 >> 1,
\* 0x80 << 1) and the ends of the u8 range
RegVals == {0, 10, 11, 20, 100, 128, 255}

AluInsts ==
    { 31509,    \* 7B15  ADD VB, 0x15
      31743,    \* 7BFF  ADD VB, 0xFF
      35780,    \* 8BC4  ADD VB, VC
      35764,    \* 8BB4  ADD VB, VB
      35828,    \* 8BF4  ADD VB, VF
      35781,    \* 8BC5  SUB VB, VC
      35782,    \* 8BC6  SHR VB {, VC}
      35783,    \* 8BC7  SUBN VB, VC
      35790,    \* 8BCE  SHL VB {, VC}
      64263,    \* FB07  LD VB, DT
      64277,    \* FB15  LD DT, VB
      64280,    \* FB18  LD ST, VB
      64307 }   \* FB33  LD B, VB

\* c.reg[r] = v
SetReg ==
    /\ steps < MaxAluSteps
    /\ op # "store"
    /\ result # "Panic"
    /\ \E r \in SetRegs, v \in RegVals : cpu' = [cpu EXCEPT !.reg[r] = v]
    /\ op' = "set_reg"
    /\ UNCHANGED <<overflow_checks, inst, result, prev, steps, key_arg, key_prev,
                   loc, input_ch, quit_ch, ui, ticks, recv, args, vf, display_ch, ict_sent>>

NextAlu ==
    \/ SetReg
    \/ StoreInst(AluInsts, MaxAluSteps)
    \/ ExecRoutine(MaxAluSteps)

SpecAlu == Init /\ [][NextAlu]_vars

\* the last operation was an exec_routine call of a word 8xyn with x # 0xF
IsAlu(n) ==
    /\ op = "exec_routine"
    /\ inst \div 4096 = 8
    /\ OpN(inst) = n
    /\ OpX(inst) # 15

\* the registers other than Vx and VF are as before the call
OtherRegsKept ==
    \A r \in Regs \ {OpX(inst), 15} : cpu.reg[r] = prev.reg[r]

\* C24: after 8xy4 with x # 0xF, Vx is the sum of the old Vx and Vy modulo
\* 256, VF is 1 if that sum exceeds 255 and 0 otherwise, pc is 2 further, no
\* other register has changed, and the call did not panic.
C24_AddCarry ==
    IsAlu(4) =>
        LET sum == prev.reg[OpX(inst)] + prev.reg[OpY(inst)]
        IN  /\ result = "Ok"
            /\ cpu.reg[OpX(inst)] = sum % 256
            /\ cpu.reg[15] = IF sum > 255 THEN 1 ELSE 0
            /\ cpu.pc = prev.pc + 2
            /\ OtherRegsKept

\* 8BC4 with VB = 255, VC = 20, the case of the test exec_routine_addxy
C24_Witness ==
    /\ IsAlu(4)
    /\ inst = 35780 /\ prev.reg[11] = 255 /\ prev.reg[12] = 20
    /\ cpu.reg[11] = 19 /\ cpu.reg[15] = 1

\* C25: after 8xy5 with x # 0xF, VF is 1 if the old Vx was greater than the
\* old Vy and 0 otherwise (0 for equal operands) and Vx is (Vx - Vy) mod 256;
\* after 8xy7, VF is 1 if the old Vy was greater than the old Vx and 0
\* otherwise and Vx is (Vy - Vx) mod 256; the call returns Ok, pc is 2 further
\* and no other register has changed.
C25_SubBorrow ==
    /\ IsAlu(5) =>
         LET vx == prev.reg[OpX(inst)]
             vy == prev.reg[OpY(inst)]
         IN  /\ result = "Ok"
             /\ cpu.reg[15] = IF vx > vy THEN 1 ELSE 0
             /\ cpu.reg[OpX(inst)] = (vx - vy) % 256
             /\ cpu.pc = prev.pc + 2
             /\ OtherRegsKept
    /\ IsAlu(7) =>
         LET vx == prev.reg[OpX(inst)]
             vy == prev.reg[OpY(inst)]
         IN  /\ result = "Ok"
             /\ cpu.reg[15] = IF vy > vx THEN 1 ELSE 0
             /\ cpu.reg[OpX(inst)] = (vy - vx) % 256
             /\ cpu.pc = prev.pc + 2
             /\ OtherRegsKept

\* 8BC5 with equal operands VB = VC = 100: Vx = 0 and VF = 0
C25_Witness ==
    /\ IsAlu(5)
    /\ prev.reg[11] = 100 /\ prev.reg[12] = 100
    /\ cpu.reg[11] = 0 /\ cpu.reg[15] = 0

\* C26: after 8xy6 with x # 0xF, VF is the lowest bit of the old Vx and Vx is
\* the old Vx halved; after 8xyE, VF is the highest bit of the old Vx and Vx
\* is twice the old Vx modulo 256; whatever Vy holds, it is as before, and so
\* is every other register; the call returns Ok and pc is 2 further.
C26_Shifts ==
    /\ IsAlu(6) =>
         LET vx == prev.reg[OpX(inst)]
         IN  /\ result = "Ok"
             /\ cpu.reg[15] = vx % 2
             /\ cpu.reg[OpX(inst)] = vx \div 2
             /\ cpu.pc = prev.pc + 2
             /\ OtherRegsKept
    /\ IsAlu(14) =>
         LET vx == prev.reg[OpX(inst)]
         IN  /\ result = "Ok"
             /\ cpu.reg[15] = vx \div 128
             /\ cpu.reg[OpX(inst)] = (2 * vx) % 256
             /\ cpu.pc = prev.pc + 2
             /\ OtherRegsKept

\* 8BC6 with VB = 10 and VC = 11: Vy is odd, Vx is even, and VF is 0
C26_Witness ==
    /\ IsAlu(6)
    /\ prev.reg[11] = 10 /\ prev.reg[12] = 11
    /\ cpu.reg[11] = 5 /\ cpu.reg[15] = 0 /\ cpu.reg[12] = 11

(***************************************************************************)
(* load_program (cpu.rs:126-147).  The file is what File::open and one     *)
(* call of Read::read make of it: it opens or not, the read fails or       *)
(* returns a count n, and the first n bytes of the 3584-byte buffer are    *)
(* then the first n bytes of the file.  Read::read may return fewer bytes  *)
(* than the file holds and the buffer has room for; it returns 0 only at   *)
(* the end of the file.                                                    *)
(***************************************************************************)
\* number of load_program calls explored
MaxLoads == 2
\* number of exec_routine calls explored in SpecLoad
MaxLoadSteps == 1
\* the size of load_program's buffer: MEMORY_SIZE - PROGRAM_ENTRY_POINT
ProgramSpace == MEMORY_SIZE - PROGRAM_ENTRY_POINT
\* file lengths: empty, one instruction, the program space exactly, and more
FileLens == {0, 2, ProgramSpace, ProgramSpace + 2}
\* byte k of a file: never 0, so that it differs from the buffer's fill
FileByte(k) == (k % 255) + 1

Files == [opens : BOOLEAN, reads : BOOLEAN, len : FileLens]

\* the counts Read::read may return for a file of len bytes: all that fit, or
\* only the first byte
ReadCounts(len) ==
    {IF len < ProgramSpace THEN len ELSE ProgramSpace} \cup (IF len > 1 THEN {1} ELSE {})

\* load_program on file f whose read returned n bytes
load_program(c, f, n) ==
    IF ~f.opens THEN Err(c, "FileOpenError")
    ELSE IF ~f.reads THEN Err(c, "FileReadError")
    ELSE LET m == c.mem
             below == {a \in DOMAIN m : a < PROGRAM_ENTRY_POINT}
             filled == {PROGRAM_ENTRY_POINT + k : k \in 0 .. (n - 1)}
         IN  Ok([c EXCEPT !.mem =
                    [a \in below \cup filled |->
                        IF a < PROGRAM_ENTRY_POINT THEN m[a]
                        ELSE FileByte(a - PROGRAM_ENTRY_POINT)]])

LoadInsts ==
    { 4608,     \* 1200  JP 0x200
      24699 }   \* 607B  LD V0, 0x7B

\* c.load_program(filename)
LoadProgram ==
    /\ ticks < MaxLoads
    /\ result # "Panic"
    /\ \E f \in Files :
       \E n \in ReadCounts(f.len) :
       \E r \in {load_program(cpu, f, n)} :
         /\ cpu' = r.c
         /\ result' = r.r
         /\ args' = <<f, n>>
    /\ prev' = cpu
    /\ ticks' = ticks + 1
    /\ op' = "load_program"
    /\ UNCHANGED <<overflow_checks, inst, steps, key_arg, key_prev,
                   loc, input_ch, quit_ch, ui, recv, vf, display_ch, ict_sent>>

NextLoad ==
    \/ LoadProgram
    \/ StoreInst(LoadInsts, MaxLoadSteps)
    \/ ExecRoutine(MaxLoadSteps)

SpecLoad == Init /\ [][NextLoad]_vars

\* C27: after load_program has returned Ok for a file of len bytes, byte k of
\* the file is at 0x200 + k for every k < min(len, 3584) and every address
\* below 0x200 holds what it held; after FileOpenError or FileReadError memory
\* is as it was.
C27_LoadProgram ==
    op = "load_program" =>
        LET len == args[1].len
            fit == IF len < ProgramSpace THEN len ELSE ProgramSpace
        IN  /\ result \in {"Ok", "FileOpenError", "FileReadError"}
            /\ result = "Ok" =>
                 /\ \A k \in 0 .. (fit - 1) :
                        MemAt(cpu, PROGRAM_ENTRY_POINT + k) = FileByte(k)
                 /\ \A a \in 0 .. (PROGRAM_ENTRY_POINT - 1) :
                        MemAt(cpu, a) = MemAt(prev, a)
            /\ result # "Ok" => cpu.mem = prev.mem

\* the part of C27 that does not depend on how much one read returns: when the
\* read returned all that fits, the bytes are placed, and in every case the
\* addresses below 0x200 and, on an error, all of memory are unchanged
LoadedWhenReadInFull ==
    op = "load_program" =>
        LET len == args[1].len
            fit == IF len < ProgramSpace THEN len ELSE ProgramSpace
        IN  /\ (result = "Ok" /\ args[2] = fit) =>
                 \A k \in 0 .. (fit - 1) :
                     MemAt(cpu, PROGRAM_ENTRY_POINT + k) = FileByte(k)
            /\ result = "Ok" =>
                 \A a \in 0 .. (PROGRAM_ENTRY_POINT - 1) : MemAt(cpu, a) = MemAt(prev, a)
            /\ result # "Ok" => cpu = prev

\* the last operation was an exec_routine call of a word Fxkk
IsF(kk) == op = "exec_routine" /\ inst \div 4096 = 15 /\ OpKK(inst) = kk

\* C28: after Fx15 the delay timer holds the value register Vx held, after
\* Fx18 the sound timer does, and after Fx07 Vx holds the delay timer's value.
C28_TimerLoads ==
    /\ IsF(21) => (result = "Ok" /\ cpu.dt = prev.reg[OpX(inst)])
    /\ IsF(24) => (result = "Ok" /\ cpu.st = prev.reg[OpX(inst)])
    /\ IsF(7) => (result = "Ok" /\ cpu.reg[OpX(inst)] = prev.dt)

\* C29: after Fx33, memory at I, I + 1 and I + 2 holds the hundreds, tens and
\* ones digits of Vx, whatever it held before.
C29_Bcd ==
    IsF(51) =>
        LET vx == prev.reg[OpX(inst)]
        IN  /\ result = "Ok"
            /\ MemAt(cpu, prev.i) = vx \div 100
            /\ MemAt(cpu, prev.i + 1) = (vx \div 10) % 10
            /\ MemAt(cpu, prev.i + 2) = vx % 10

\* C30: 7xkk returns Ok with Vx = (Vx + kk) mod 256, pc 2 further, and every
\* other register, VF included, as before.
C30_AddByte ==
    (op = "exec_routine" /\ inst \div 4096 = 7) =>
        /\ result = "Ok"
        /\ cpu.reg[OpX(inst)] = (prev.reg[OpX(inst)] + OpKK(inst)) % 256
        /\ \A r \in Regs \ {OpX(inst)} : cpu.reg[r] = prev.reg[r]
        /\ cpu.pc = prev.pc + 2

(***************************************************************************)
(* Block copies between the registers and memory at I, in the engine       *)
(* harness                                                                 *)
(***************************************************************************)
\* number of exec_routine calls explored in SpecBlock
MaxBlockSteps == 5
BlockInsts ==
    { 24576,    \* 6000  LD V0, 0x00
      24746,    \* 60AA  LD V0, 0xAA
      25019,    \* 61BB  LD V1, 0xBB
      41728,    \* A300  LD I, 0x300
      61525,    \* F055  LD [I], V0
      61541 }   \* F065  LD V0, [I]

NextBlock ==
    \/ StoreInst(BlockInsts, MaxBlockSteps)
    \/ ExecRoutine(MaxBlockSteps)

SpecBlock == Init /\ [][NextBlock]_vars

\* the addresses I .. I + x of the last instruction
BlockAddrs == prev.i .. (prev.i + OpX(inst))

\* C31: Fx55 returns Ok with V0..Vx at I..I+x, and I, every register and
\* every other byte of memory as before; Fx65 returns Ok with the bytes at
\* I..I+x in V0..Vx, and I, the registers above Vx and memory as before.
\* (Fx65 after Fx55 with the same x and I therefore finds in memory what
\* V0..Vx held.)
C31_BlockCopy ==
    /\ IsF(85) =>
         /\ result = "Ok"
         /\ \A j \in 0 .. OpX(inst) : MemAt(cpu, prev.i + j) = prev.reg[j]
         /\ cpu.i = prev.i
         /\ cpu.reg = prev.reg
         /\ \A a \in ((DOMAIN cpu.mem) \cup (DOMAIN prev.mem)) \ BlockAddrs :
                MemAt(cpu, a) = MemAt(prev, a)
    /\ IsF(101) =>
         /\ result = "Ok"
         /\ \A j \in 0 .. OpX(inst) : cpu.reg[j] = MemAt(prev, prev.i + j)
         /\ \A r \in Regs : r > OpX(inst) => cpu.reg[r] = prev.reg[r]
         /\ cpu.i = prev.i
         /\ cpu.mem = prev.mem

\* 60AA and A300, then F055, 6000 and F065: V0 was 0xAA when stored, 0 before
\* the load, and is 0xAA again
C31_Witness ==
    /\ IsF(101)
    /\ prev.i = 768
    /\ prev.reg[0] = 0
    /\ cpu.reg[0] = 170
    /\ MemAt(cpu, 769) = 0

(***************************************************************************)
(* The conditional skips, in the engine harness with registers assigned    *)
(* and a key bitmap some keys of which are down                            *)
(***************************************************************************)
SkipInsts ==
    { 15114,    \* 3B0A  SE VB, 0x0A
      19210,    \* 4B0A  SNE VB, 0x0A
      20479,    \* 4FFF  SNE VF, 0xFF
      23488,    \* 5BC0  SE VB, VC
      39872,    \* 9BC0  SNE VB, VC
      60318,    \* EB9E  SKP VB
      60321 }   \* EBA1  SKNP VB

NextSkip ==
    \/ SetReg
    \/ StoreInst(SkipInsts, MaxAluSteps)
    \/ ExecRoutine(MaxAluSteps)

SpecSkip == InitInput /\ [][NextSkip]_vars

\* w is one of the six conditional skips
IsSkip(w) ==
    \/ w \div 4096 \in {3, 4}
    \/ (w \div 4096 \in {5, 9} /\ OpN(w) = 0)
    \/ (w \div 4096 = 14 /\ OpKK(w) \in {158, 161})

\* the condition of skip w in engine state c
SkipCond(c, w) ==
    CASE w \div 4096 = 3 -> c.reg[OpX(w)] = OpKK(w)
      [] w \div 4096 = 4 -> c.reg[OpX(w)] # OpKK(w)
      [] w \div 4096 = 5 -> c.reg[OpX(w)] = c.reg[OpY(w)]
      [] w \div 4096 = 9 -> c.reg[OpX(w)] # c.reg[OpY(w)]
      [] w \div 4096 = 14 /\ OpKK(w) = 158 -> key_pressed(c.ict, c.reg[OpX(w)])
      [] OTHER -> ~key_pressed(c.ict, c.reg[OpX(w)])

\* C32: a conditional skip returns Ok with pc 4 further when its condition
\* held and 2 further when it did not, and with everything else as before.
C32_Skips ==
    (op = "exec_routine" /\ inst >= 0 /\ IsSkip(inst)) =>
        /\ result = "Ok"
        /\ cpu = [prev EXCEPT !.pc = prev.pc + (IF SkipCond(prev, inst) THEN 4 ELSE 2)]

(***************************************************************************)
(* The quit poll and the execute step of main_loop (SpecSched)             *)
(***************************************************************************)
\* C33, step by step: the quit poll that finds a message ends the loop in
\* that step, with the engine untouched and no exec_routine or timer_tick
\* call; once the loop has ended the engine never changes again; and a quit
\* message leaves the channel only in the quit poll, which main_loop reaches
\* once in every iteration, between the input poll and the execute step.
C33_Step ==
    /\ (loc = "quit" /\ quit_ch # <<>> /\ loc' # loc)
         => (loc' = "done" /\ cpu' = cpu /\ steps' = steps /\ ticks' = ticks)
    /\ loc = "done"
         => (loc' = "done" /\ cpu' = cpu /\ steps' = steps /\ ticks' = ticks)
    /\ quit_ch' # quit_ch
         => \/ (loc = "quit" /\ loc' = "done" /\ quit_ch' = Tail(quit_ch))
            \/ (loc' = loc /\ cpu' = cpu /\ quit_ch' = Append(quit_ch, TRUE))

\* C33: a quit message present at the quit poll stops the loop in that
\* iteration, before its timer_tick and exec_routine; it is taken only at the
\* poll, never within an execute step.
C33_QuitBetweenInstructions == [][C33_Step]_vars

\* the loop ended by a quit message after 1FFE had run: the engine is
\* neither paused nor blocking and stays at pc 0xFFE
C33_Witness ==
    /\ loc = "done"
    /\ op = "quit_poll"
    /\ steps = 1
    /\ cpu.pc = 4094
    /\ ~cpu.paused

\* main_loop with the timer instructions among those it finds at pc, and a
\* front end that sends no key messages
SchedStoreTimer ==
    /\ loc = "exec"
    /\ ~paused(cpu)
    /\ ~is_blocking(cpu)
    /\ StoreInst(TimerInsts, MaxTicks)

NextTick ==
    \/ SchedStore
    \/ SchedStoreTimer
    \/ SchedInput
    \/ SchedQuit
    \/ SchedExec
    \/ UiQuit

SpecTick == InitSched /\ [][NextTick]_vars

\* C34, the execute step (the step that ends an iteration): with the engine
\* paused or blocking it leaves the engine, timers included, as it is and
\* calls nothing; otherwise it makes one exec_routine call on the engine that
\* one timer_tick call has left, and pauses the engine if that call returned
\* an error.
C34_Step ==
    (loc = "exec" /\ ticks' = ticks + 1) =>
        IF cpu.paused \/ cpu.blocking
        THEN cpu' = cpu /\ steps' = steps
        ELSE /\ steps' = steps + 1
             /\ prev' = cpu
             /\ \E delta \in Deltas :
                  LET r == exec_routine(timer_tick(cpu, delta), 0)
                  IN  /\ result' = r.r
                      /\ cpu' = IF r.r \in CpuErrors THEN pause(r.c) ELSE r.c

\* C34: an iteration of main_loop that does not end the loop advances the
\* timers once and then executes one instruction, in that order, unless the
\* engine is paused or blocking, and then it does neither.
C34_TickThenExecute == [][C34_Step]_vars

\* F515 set the delay timer to 5 in the first iteration; in the second, a
\* sixtieth of a second later, F007 read it after timer_tick had made it 4
C34_Witness ==
    /\ op = "exec_routine"
    /\ inst = 61447
    /\ result = "Ok"
    /\ prev.dt = 5
    /\ cpu.dt = 4
    /\ cpu.reg[0] = 4

(***************************************************************************)
(* main_loop with a front end that sends key messages and never the quit   *)
(* message, and an engine that finds at pc the zeroed memory it starts     *)
(* with, or a wait for a key.  main_loop is the body of a thread of its    *)
(* own: the three steps of an iteration are taken whenever they can be.    *)
(***************************************************************************)
\* F10A (LD V1, K) as the first instruction the engine executes
SchedStoreLdxk ==
    /\ loc = "exec"
    /\ ~paused(cpu)
    /\ ~is_blocking(cpu)
    /\ StoreInst({61706}, 1)

NextKeys ==
    \/ SchedStoreLdxk
    \/ SchedInput
    \/ SchedQuit
    \/ SchedExec
    \/ UiSendKey

SpecKeys ==
    /\ InitSched
    /\ [][NextKeys]_vars
    /\ WF_vars(SchedInput)
    /\ WF_vars(SchedQuit)
    /\ WF_vars(SchedExec)

RECURSIVE ApplyAll(_, _)
\* update_key applied to a key state for each message of q, first to last
ApplyAll(key_state, q) ==
    IF q = <<>> THEN key_state
    ELSE ApplyAll(update_key(key_state, Head(q)[1], Head(q)[2]), Tail(q))

\* the key state is what the messages received so far give, and the messages
\* still in the channel are the rest of those sent, in the order sent
C35_State == ApplyAll(cpu.ict, input_ch) = ict_sent

\* the channel changes by a send at its end or by the input poll taking its
\* first message and applying it; the key state changes in no other step
C35_Step ==
    /\ input_ch' # input_ch =>
         \/ /\ input_ch # <<>>
            /\ loc = "input"
            /\ input_ch' = Tail(input_ch)
            /\ recv' = Head(input_ch)
            /\ cpu'.ict = update_key(cpu.ict, Head(input_ch)[1], Head(input_ch)[2])
         \/ /\ \E k \in SentKeys, state \in KeyStatus :
                 input_ch' = Append(input_ch, <<k, state>>)
            /\ cpu' = cpu
    /\ cpu'.ict # cpu.ict => (input_ch # <<>> /\ input_ch' = Tail(input_ch))

\* a message in the channel is followed by a receipt (of the first message,
\* by C35_Step), while an iteration after the current one is still explored
C35_Applied ==
    (input_ch # <<>> /\ ticks + 1 < MaxTicks)
        ~> (op = "input_poll" /\ recv # <<>>)

C36_SpIsDepth ==
    /\ cpu.sp = Len(cpu.stk)
    /\ Len(cpu.stk) >= 0
    /\ Len(cpu.stk) <= STACK_SIZE

\* blocking is set exactly when a register to write is recorded
C37_State == cpu.blocking <=> cpu.reg_to_write # None

\* the two fields change only in an exec_routine call that fetched Fx0A, which
\* sets both, and in an input poll that received a press while the engine was
\* blocking, which clears both
C37_Step ==
    (cpu'.blocking # cpu.blocking \/ cpu'.reg_to_write # cpu.reg_to_write) =>
        \/ /\ op' = "exec_routine"
           /\ inst' \div 4096 = 15
           /\ inst' % 256 = 10
           /\ cpu'.blocking
           /\ cpu'.reg_to_write = Some(OpX(inst'))
        \/ /\ op' = "input_poll"
           /\ recv' # <<>>
           /\ recv'[2] = "Pressed"
           /\ cpu.blocking
           /\ cpu.reg_to_write # None
           /\ ~cpu'.blocking
           /\ cpu'.reg_to_write = None

\* C37: at every state blocking is set iff reg_to_write is Some: Fx0A sets
\* both, also when its increment_pc fails, unblock clears both and nothing
\* else changes either, so main_loop's unblock call always finds a register
\* to write.
C37_BlockingHasRegister == []C37_State /\ [][C37_Step]_vars

\* F10A at 0xFFE: increment_pc returned an error, and both fields are set
C37_Witness ==
    /\ op = "exec_routine"
    /\ inst = 61706
    /\ result \in CpuErrors
    /\ prev.pc = 4094
    /\ cpu.blocking
    /\ cpu.reg_to_write = Some(1)
    /\ cpu.paused

\* an exec_routine call that fetched RET and returned Ok, the call before it
\* having fetched a CALL at prev.pc and returned Ok: pc is then prev.pc + 2
C38_Step ==
    ( /\ op' = "exec_routine"
      /\ steps' = steps + 1
      /\ inst' = 238
      /\ result' = "Ok"
      /\ inst >= 0
      /\ IsCall(inst)
      /\ result = "Ok" )
        => cpu'.pc = prev.pc + 2

\* C38: after a CALL at address a and then a RET, with no CALL between them,
\* pc is a + 2, the instruction after the CALL, so that the pair does not
\* execute the same CALL again.
C38_ReturnPastCall == [][C38_Step]_vars

(***************************************************************************)
(* The flag-setting instructions of the 8xyn family with VF as their       *)
(* destination register.                                                   *)
(***************************************************************************)
FlagDestInsts ==
    { 36804,    \* 8FC4  ADD VF, VC
      36805,    \* 8FC5  SUB VF, VC
      36806,    \* 8FC6  SHR VF
      36807,    \* 8FC7  SUBN VF, VC
      36814 }   \* 8FCE  SHL VF

\* c.reg[0xF] = v
SetRegF ==
    /\ steps < MaxAluSteps
    /\ op # "store"
    /\ result # "Panic"
    /\ \E v \in RegVals : cpu' = [cpu EXCEPT !.reg[15] = v]
    /\ op' = "set_reg"
    /\ UNCHANGED <<overflow_checks, inst, result, prev, steps, key_arg, key_prev,
                   loc, input_ch, quit_ch, ui, ticks, recv, args, vf, display_ch, ict_sent>>

NextFlagDest ==
    \/ SetReg
    \/ SetRegF
    \/ StoreInst(FlagDestInsts, MaxAluSteps)
    \/ ExecRoutine(MaxAluSteps)

SpecFlagDest == Init /\ [][NextFlagDest]_vars

\* the flag of a flag-setting 8xyn instruction w, from the registers before it
FlagOf(c, w) ==
    LET x == c.reg[OpX(w)]
        y == c.reg[OpY(w)]
        n == w % 16
    IN  IF n = 4 THEN (IF x + y > 255 THEN 1 ELSE 0)
        ELSE IF n = 5 THEN (IF x > y THEN 1 ELSE 0)
        ELSE IF n = 6 THEN x % 2
        ELSE IF n = 7 THEN (IF y > x THEN 1 ELSE 0)
        ELSE x \div 128

\* C39: after 8xy4, 8xy5, 8xy6, 8xy7 or 8xyE with x = 0xF, VF holds the
\* flag (carry, not-borrow or shifted-out bit), not the arithmetic result.
C39_FlagWins ==
    (op = "exec_routine" /\ result = "Ok" /\ inst \in FlagDestInsts)
        => cpu.reg[15] = FlagOf(prev, inst)

\* C40: the first exec_routine call that main_loop makes fetches at 0x200,
\* the entry point at which load_program puts a program, and not from the
\* zeroed bytes at address 0.
C40_StartsAtEntryPoint ==
    (op = "exec_routine" /\ steps = 1) => prev.pc = PROGRAM_ENTRY_POINT

====
